---- MODULE Spec2Model ----
(***************************************************************************)
(* Model of pytorch_pretrained_bert/modelingold.py: the BERT encoder, the  *)
(* task heads built on it and the checkpoint loader from_pretrained.       *)
(*                                                                         *)
(* Values of the tensor library are modelled in two ways.  Integer tensors *)
(* whose entries the code computes with (masks, positions, labels) are     *)
(* sequences of integers, nested once per dimension, indexed from 1.       *)
(* Results of learned sublayers (Linear, LayerNorm, Softmax, ...) are      *)
(* terms: flat sequences of strings in prefix notation, one head symbol    *)
(* per sublayer application followed by the terms of its arguments, so two *)
(* results are equal exactly when the same sublayers were applied in the   *)
(* same order to the same values.                                          *)
(***************************************************************************)
EXTENDS Integers, Sequences, FiniteSets, TLC

VARIABLES model, args, pc, ret, trace

vars == <<model, args, pc, ret, trace>>

(* ------------------------------ bounds -------------------------------- *)

MaxBatch == 2

MaxSeq == 2

MaxLayers == 2

MaxKeys == 2

NumHeads == 2

\* variables of a TensorFlow checkpoint
MaxVars == 2

\* config.hidden_size, config.intermediate_size, config.vocab_size
hidden_size == 2

intermediate_size == 3

vocab_size == 4

(* --------------------------- python values ---------------------------- *)

\* Python's None; every tensor has at least one row.
None == <<>>

\* x[-1] of a Python list
Last(xs) == xs[Len(xs)]

RECURSIVE Concat(_)
\* concatenation of a sequence of sequences
Concat(xss) == IF xss = <<>> THEN <<>> ELSE Head(xss) \o Concat(Tail(xss))

(* ------------------------------- terms -------------------------------- *)

\* an integer tensor as a leaf of a term
Tok(x) == <<ToString(x)>>

\* the result of sublayer f (its head symbols) on one argument
App1(f, x) == f \o x

\* the result of sublayer or operation f on two arguments
App2(f, x, y) == f \o x \o y

\* sublayer `name` of encoder layer l (each layer is a deep copy with its own weights)
InLayer(name, l) == name \o Tok(l)

(* --------------------------- integer tensors -------------------------- *)

\* torch.ones_like(x) for a 2-D tensor
ones_like(x) == [b \in 1..Len(x) |-> [s \in 1..Len(x[b]) |-> 1]]

\* torch.zeros_like(x) for a 2-D tensor
zeros_like(x) == [b \in 1..Len(x) |-> [s \in 1..Len(x[b]) |-> 0]]

\* x.unsqueeze(1).unsqueeze(2) of a 2-D tensor [B, S]: shape [B, 1, 1, S]
unsqueeze_1_2(x) == [b \in 1..Len(x) |-> << << x[b] >> >>]

\* the value added to the score of a masked position
MaskedBias == -10000

\* InvertMask with the subtraction from 1.0 left out
InvertMaskMut(m) ==
    [b \in 1..Len(m) |-> [h \in 1..Len(m[b]) |-> [q \in 1..Len(m[b][h]) |->
        [k \in 1..Len(m[b][h][q]) |-> m[b][h][q][k] * MaskedBias]]]]

\* (1.0 - m) * -10000.0, elementwise on a 4-D tensor
InvertMask(m) ==
    [b \in 1..Len(m) |-> [h \in 1..Len(m[b]) |-> [q \in 1..Len(m[b][h]) |->
        [k \in 1..Len(m[b][h][q]) |-> (1 - m[b][h][q][k]) * MaskedBias]]]]

\* index i of a dimension of size n under broadcasting (a size-1 dimension is repeated)
Bidx(n, i) == IF n = 1 THEN 1 ELSE i

\* x + y for 4-D tensors of broadcastable shapes, x of the full shape
BroadcastAdd(x, y) ==
    [b \in 1..Len(x) |-> [h \in 1..Len(x[b]) |-> [q \in 1..Len(x[b][h]) |->
        [k \in 1..Len(x[b][h][q]) |->
            x[b][h][q][k]
              + y[Bidx(Len(y), b)][Bidx(Len(y[1]), h)][Bidx(Len(y[1][1]), q)]
                 [Bidx(Len(y[1][1][1]), k)]]]]]

(* ------------------------------ encoder ------------------------------- *)

\* BertEmbeddings.forward
BertEmbeddings_forward(input_ids, token_type_ids) ==
    LET tt == IF token_type_ids = None THEN zeros_like(input_ids) ELSE token_type_ids
    IN  App1(<<"embeddings.dropout">>, App1(<<"embeddings.LayerNorm">>,
          App2(<<"add">>, App2(<<"add">>,
               App1(<<"word_embeddings">>, Tok(input_ids)),
               App1(<<"position_embeddings">>, Tok(Len(input_ids[1])))),
               App1(<<"token_type_embeddings">>, Tok(tt)))))

\* matmul(query, key^T) / sqrt(head size): the raw scores, shape [B, heads, S, S].
\* The products are the tensor library's; the model keeps one distinct integer
\* per (head, query, key) so that a term added along the wrong axis shows.
RawScores(B, S) ==
    [b \in 1..B |-> [h \in 1..NumHeads |-> [q \in 1..S |-> [k \in 1..S |->
        100 * h + 10 * q + k]]]]

\* BertSelfAttention.forward, the scores handed to the softmax
AttentionScores(B, S, attention_mask) ==
    BroadcastAdd(RawScores(B, S), attention_mask)

\* BertSelfAttention.forward
BertSelfAttention_forward(l, hidden_states, attention_mask) ==
    App2(InLayer(<<"attention.self">>, l), Tok(attention_mask), hidden_states)

\* BertSelfOutput.forward
BertSelfOutput_forward(l, hidden_states, input_tensor) ==
    App1(InLayer(<<"attention.output.LayerNorm">>, l),
         App2(<<"add">>,
              App1(InLayer(<<"attention.output.dropout">>, l),
                   App1(InLayer(<<"attention.output.dense">>, l), hidden_states)),
              input_tensor))

\* BertAttention.forward
BertAttention_forward(l, input_tensor, attention_mask) ==
    LET self_output == BertSelfAttention_forward(l, input_tensor, attention_mask)
    IN  BertSelfOutput_forward(l, self_output, input_tensor)

\* BertIntermediate.forward
BertIntermediate_forward(l, hidden_states) ==
    App1(InLayer(<<"intermediate.act_fn">>, l),
         App1(InLayer(<<"intermediate.dense">>, l), hidden_states))

\* BertOutput.forward
BertOutput_forward(l, hidden_states, input_tensor) ==
    App1(InLayer(<<"output.LayerNorm">>, l),
         App2(<<"add">>,
              App1(InLayer(<<"output.dropout">>, l),
                   App1(InLayer(<<"output.dense">>, l), hidden_states)),
              input_tensor))

\* BertLayer.forward with the layer input as the residual of the output sublayer
BertLayer_forwardMut(l, hidden_states, attention_mask) ==
    LET attention_output == BertAttention_forward(l, hidden_states, attention_mask)
        intermediate_output == BertIntermediate_forward(l, attention_output)
    IN  BertOutput_forward(l, intermediate_output, hidden_states)

\* BertLayer.forward
BertLayer_forward(l, hidden_states, attention_mask) ==
    LET attention_output == BertAttention_forward(l, hidden_states, attention_mask)
        intermediate_output == BertIntermediate_forward(l, attention_output)
    IN  BertOutput_forward(l, intermediate_output, attention_output)

RECURSIVE EncoderLoop(_, _, _, _, _, _)
\* the for loop of BertEncoder.forward from layer l on (layers are numbered from 0)
EncoderLoop(l, n, hidden_states, attention_mask, output_all, all) ==
    IF l >= n
    THEN [hidden_states |-> hidden_states, all_encoder_layers |-> all]
    ELSE LET h == BertLayer_forward(l, hidden_states, attention_mask)
         IN  EncoderLoop(l + 1, n, h, attention_mask, output_all,
                         IF output_all THEN Append(all, h) ELSE all)

\* BertEncoder.forward appending the final hidden state whatever the flag
BertEncoder_forwardMut(n, hidden_states, attention_mask, output_all) ==
    LET r == EncoderLoop(0, n, hidden_states, attention_mask, output_all, <<>>)
    IN  Append(r.all_encoder_layers, r.hidden_states)

\* BertEncoder.forward
BertEncoder_forward(n, hidden_states, attention_mask, output_all) ==
    LET r == EncoderLoop(0, n, hidden_states, attention_mask, output_all, <<>>)
    IN  IF ~output_all
        THEN Append(r.all_encoder_layers, r.hidden_states)
        ELSE r.all_encoder_layers

\* BertPooler.forward
BertPooler_forward(hidden_states) ==
    App1(<<"pooler.activation">>,
         App1(<<"pooler.dense">>, App1(<<"first_token">>, hidden_states)))

\* the additive mask of BertModel.forward (extended_attention_mask)
ExtendedAttentionMask(input_ids, attention_mask) ==
    LET m == IF attention_mask = None THEN ones_like(input_ids) ELSE attention_mask
    IN  InvertMask(unsqueeze_1_2(m))

\* BertModel.forward; encoded_layers[-1] of an empty list raises IndexError
BertModel_forward(n, input_ids, token_type_ids, attention_mask, output_all) ==
    LET tt == IF token_type_ids = None THEN zeros_like(input_ids) ELSE token_type_ids
        extended_attention_mask == ExtendedAttentionMask(input_ids, attention_mask)
        embedding_output == BertEmbeddings_forward(input_ids, tt)
        encoded_layers == BertEncoder_forward(n, embedding_output,
                                              extended_attention_mask, output_all)
    IN  IF encoded_layers = <<>>
        THEN [raised |-> "IndexError"]
        ELSE [raised |-> "",
              encoded_layers |-> IF ~output_all THEN Last(encoded_layers)
                                 ELSE encoded_layers,
              pooled_output |-> BertPooler_forward(Last(encoded_layers))]

(* ------------------------------- heads -------------------------------- *)

\* x.view(-1) of a 2-D integer tensor, and the rows of x.view(-1, n) of a
\* 3-D one: row-major, position (b, s) at index (b - 1) * S + s
Flatten(x) == Concat(x)

\* CrossEntropyLoss(ignore_index)(input, target), target a term
CrossEntropyLoss(ignore_index, input, target) ==
    App2(<<"CrossEntropyLoss">> \o Tok(ignore_index), input, target)

\* the ignore_index of a CrossEntropyLoss() built without one
DefaultIgnoreIndex == -100

\* what a head's forward returns: the loss, or the logits (one term, or a pair)
ReturnLoss(loss) == [raised |-> "", loss |-> loss, logits |-> None]

ReturnLogits(logits) == [raised |-> "", loss |-> None, logits |-> logits]

\* BertPredictionHeadTransform.forward
BertPredictionHeadTransform_forward(hidden_states) ==
    App1(<<"transform.LayerNorm">>,
         App1(<<"transform.act_fn">>, App1(<<"transform.dense">>, hidden_states)))

\* BertLMPredictionHead.forward
BertLMPredictionHead_forward(hidden_states) ==
    App2(<<"add">>,
         App1(<<"decoder">>, BertPredictionHeadTransform_forward(hidden_states)),
         <<"predictions.bias">>)

\* BertPreTrainingHeads.forward
BertPreTrainingHeads_forward(sequence_output, pooled_output) ==
    <<BertLMPredictionHead_forward(sequence_output),
      App1(<<"seq_relationship">>, pooled_output)>>

\* BertForPreTraining.forward
BertForPreTraining_forward(n, input_ids, token_type_ids, attention_mask, masked_lm_labels, next_sentence_label) ==
    LET bert == BertModel_forward(n, input_ids, token_type_ids, attention_mask, FALSE)
        cls == BertPreTrainingHeads_forward(bert.encoded_layers, bert.pooled_output)
        prediction_scores == cls[1]
        seq_relationship_score == cls[2]
    IN  IF masked_lm_labels # None /\ next_sentence_label # None
        THEN LET masked_lm_loss ==
                   CrossEntropyLoss(-1, App1(<<"view(-1,vocab_size)">>, prediction_scores),
                                    Tok(Flatten(masked_lm_labels)))
                 next_sentence_loss ==
                   CrossEntropyLoss(-1, App1(<<"view(-1,2)">>, seq_relationship_score),
                                    Tok(next_sentence_label))
             IN  ReturnLoss(App2(<<"add">>, masked_lm_loss, next_sentence_loss))
        ELSE ReturnLogits(<<prediction_scores, seq_relationship_score>>)

\* BertForMaskedLM.forward
BertForMaskedLM_forward(n, input_ids, token_type_ids, attention_mask, masked_lm_labels) ==
    LET bert == BertModel_forward(n, input_ids, token_type_ids, attention_mask, FALSE)
        prediction_scores == BertLMPredictionHead_forward(bert.encoded_layers)
    IN  IF masked_lm_labels # None
        THEN ReturnLoss(CrossEntropyLoss(-1,
                 App1(<<"view(-1,vocab_size)">>, prediction_scores),
                 Tok(Flatten(masked_lm_labels))))
        ELSE ReturnLogits(prediction_scores)

\* the next sentence loss with a second loss term added to it
NextSentenceLossMut(seq_relationship_score, next_sentence_label) ==
    App2(<<"add">>,
         CrossEntropyLoss(-1, App1(<<"view(-1,vocab_size)">>, seq_relationship_score),
                          Tok(next_sentence_label)),
         CrossEntropyLoss(-1, App1(<<"view(-1,2)">>, seq_relationship_score),
                          Tok(next_sentence_label)))

\* the next sentence classification loss of a score
NextSentenceLoss(seq_relationship_score, next_sentence_label) ==
    CrossEntropyLoss(-1, App1(<<"view(-1,2)">>, seq_relationship_score),
                     Tok(next_sentence_label))

\* BertForNextSentencePrediction.forward
BertForNextSentencePrediction_forward(n, input_ids, token_type_ids, attention_mask, next_sentence_label) ==
    LET bert == BertModel_forward(n, input_ids, token_type_ids, attention_mask, FALSE)
        seq_relationship_score == App1(<<"seq_relationship">>, bert.pooled_output)
    IN  IF next_sentence_label # None
        THEN ReturnLoss(NextSentenceLoss(seq_relationship_score, next_sentence_label))
        ELSE ReturnLogits(seq_relationship_score)

\* BertForSequenceClassification.forward returning the logits whatever the labels
BertForSequenceClassification_forwardMut(n, input_ids, token_type_ids, attention_mask, labels) ==
    LET bert == BertModel_forward(n, input_ids, token_type_ids, attention_mask, FALSE)
    IN  ReturnLogits(App1(<<"classifier">>, App1(<<"dropout">>, bert.pooled_output)))

\* BertForSequenceClassification.forward
BertForSequenceClassification_forward(n, input_ids, token_type_ids, attention_mask, labels) ==
    LET bert == BertModel_forward(n, input_ids, token_type_ids, attention_mask, FALSE)
        pooled_output == App1(<<"dropout">>, bert.pooled_output)
        logits == App1(<<"classifier">>, pooled_output)
    IN  IF labels # None
        THEN ReturnLoss(CrossEntropyLoss(DefaultIgnoreIndex,
                 App1(<<"view(-1,num_labels)">>, logits), Tok(labels)))
        ELSE ReturnLogits(logits)

\* the indices of the entries of a 1-D tensor that equal 1 (x == 1 as a boolean index)
ActiveIndices(x) ==
    LET keep == [i \in 1..Len(x) |-> IF x[i] = 1 THEN <<i>> ELSE <<>>]
    IN  Concat(keep)

\* x[idx] for a 1-D tensor x and the indices a boolean index selects
IndexSelect(x, idx) == [j \in 1..Len(idx) |-> x[idx[j]]]

\* the positions BertForTokenClassification.forward computes its loss over, with all kept
ActiveLossMut(attention_mask, labels) ==
    LET flat_labels == Flatten(labels)
        every == [i \in 1..Len(flat_labels) |-> i]
    IN  [rows |-> every, labels |-> flat_labels]

\* the positions BertForTokenClassification.forward computes its loss over:
\* the rows of logits.view(-1, num_labels) it keeps, and the labels it keeps
ActiveLoss(attention_mask, labels) ==
    LET flat_labels == Flatten(labels)
        every == [i \in 1..Len(flat_labels) |-> i]
    IN  IF attention_mask # None
        THEN LET active_loss == ActiveIndices(Flatten(attention_mask))
             IN  [rows |-> active_loss, labels |-> IndexSelect(flat_labels, active_loss)]
        ELSE [rows |-> every, labels |-> flat_labels]

\* BertForTokenClassification.forward
BertForTokenClassification_forward(n, input_ids, token_type_ids, attention_mask, labels) ==
    LET bert == BertModel_forward(n, input_ids, token_type_ids, attention_mask, FALSE)
        sequence_output == App1(<<"dropout">>, bert.encoded_layers)
        logits == App1(<<"classifier">>, sequence_output)
    IN  IF labels # None
        THEN LET active == ActiveLoss(attention_mask, labels)
             IN  ReturnLoss(CrossEntropyLoss(DefaultIgnoreIndex,
                     App2(<<"rows">>, Tok(active.rows),
                          App1(<<"view(-1,num_labels)">>, logits)),
                     Tok(active.labels)))
        ELSE ReturnLogits(logits)

\* the num_choices a BertForMultipleChoice is built with
NumChoices == 2

\* x.view(-1, x.size(-1)) of a 3-D tensor [B, C, S]
FlattenChoices(x) == Concat(x)

\* BertForMultipleChoice.forward; None has no attribute `view`
BertForMultipleChoice_forward(n, input_ids, token_type_ids, attention_mask, labels) ==
    IF token_type_ids = None \/ attention_mask = None
    THEN [raised |-> "AttributeError", loss |-> None, logits |-> None]
    ELSE LET bert == BertModel_forward(n, FlattenChoices(input_ids),
                                       FlattenChoices(token_type_ids),
                                       FlattenChoices(attention_mask), FALSE)
             pooled_output == App1(<<"dropout">>, bert.pooled_output)
             logits == App1(<<"classifier">>, pooled_output)
             reshaped_logits == App1(<<"view(-1,num_choices)">>, logits)
         IN  IF labels # None
             THEN ReturnLoss(CrossEntropyLoss(DefaultIgnoreIndex, reshaped_logits,
                                              Tok(labels)))
             ELSE ReturnLogits(reshaped_logits)

\* x.clamp_(lo, hi) of a 1-D tensor
clamp(x, lo, hi) ==
    [b \in 1..Len(x) |-> IF x[b] < lo THEN lo ELSE IF x[b] > hi THEN hi ELSE x[b]]

\* the batch entries CrossEntropyLoss(ignore_index) averages over
Counted(target, ignore_index) == {b \in 1..Len(target) : target[b] # ignore_index}

\* the start or end positions as BertForQuestionAnswering.forward hands them to the
\* loss (an extra trailing dimension of size 1 is squeezed away first)
ClampPositions(positions, ignored_index) == clamp(positions, 0, ignored_index)

\* BertForQuestionAnswering.forward returning the logits unless both positions are None
BertForQuestionAnswering_forwardMut(n, input_ids, token_type_ids, attention_mask, start_positions, end_positions) ==
    LET bert == BertModel_forward(n, input_ids, token_type_ids, attention_mask, FALSE)
        logits == App1(<<"qa_outputs">>, bert.encoded_layers)
        start_logits == App1(<<"squeeze(-1)">>, App1(<<"split.0">>, logits))
        end_logits == App1(<<"squeeze(-1)">>, App1(<<"split.1">>, logits))
    IN  IF start_positions # None \/ end_positions # None
        THEN ReturnLoss(CrossEntropyLoss(Len(input_ids[1]), start_logits, <<"positions">>))
        ELSE ReturnLogits(<<start_logits, end_logits>>)

\* BertForQuestionAnswering.forward
BertForQuestionAnswering_forward(n, input_ids, token_type_ids, attention_mask, start_positions, end_positions) ==
    LET bert == BertModel_forward(n, input_ids, token_type_ids, attention_mask, FALSE)
        logits == App1(<<"qa_outputs">>, bert.encoded_layers)
        start_logits == App1(<<"squeeze(-1)">>, App1(<<"split.0">>, logits))
        end_logits == App1(<<"squeeze(-1)">>, App1(<<"split.1">>, logits))
    IN  IF start_positions # None /\ end_positions # None
        THEN LET ignored_index == Len(input_ids[1])
                 start_loss == CrossEntropyLoss(ignored_index, start_logits,
                                   Tok(ClampPositions(start_positions, ignored_index)))
                 end_loss == CrossEntropyLoss(ignored_index, end_logits,
                                 Tok(ClampPositions(end_positions, ignored_index)))
             IN  ReturnLoss(App2(<<"div">>, App2(<<"add">>, start_loss, end_loss),
                                 <<"2">>))
        ELSE ReturnLogits(<<start_logits, end_logits>>)

(* -------------------------- siamese variants -------------------------- *)

\* BertForVer3_siamese_main_once.forward_once
BertForVer3_siamese_main_once_forward_once(n, input_ids, token_type_ids, attention_mask) ==
    LET bert == BertModel_forward(n, input_ids, token_type_ids, attention_mask, FALSE)
        sequence_output_dr == App1(<<"dropout">>, bert.encoded_layers)
        logits_rel == App1(<<"encode_rel_1">>, sequence_output_dr)
        re_sequence_output == App1(<<"view(-1,max_tok*hidden_size)">>, sequence_output_dr)
        logits_ent == App1(<<"view(-1,max_tok)">>,
                           App1(<<"encode_ent">>, re_sequence_output))
        ent_to_rel == App1(<<"view(-1,max_tok,5)">>,
                           App1(<<"repeat(1,1,5)">>,
                                App1(<<"view(-1,max_tok,1)">>, logits_ent)))
        rel_input == App1(<<"dropout2">>,
                         App1(<<"view(-1,(rel_dim+5)*max_tok)">>,
                              App2(<<"cat(dim=2)">>, logits_rel, ent_to_rel)))
        ent_input == App1(<<"dropout3">>,
                         App1(<<"view(-1,(hidden_size+rel_dim)*max_tok)">>,
                              App2(<<"cat(dim=2)">>, sequence_output_dr, logits_rel)))
        logits_rel_2 == App1(<<"encode_rel_2">>, rel_input)
        logits_ent_2 == App1(<<"view(-1,max_tok)">>, App1(<<"encode_ent_2">>, ent_input))
    IN  ReturnLogits(<<logits_rel_2, logits_ent_2>>)

\* BertForVer3_siamese_main_once_intraatt.forward_once
BertForVer3_siamese_main_once_intraatt_forward_once(n, input_ids, token_type_ids, attention_mask) ==
    LET bert == BertModel_forward(n, input_ids, token_type_ids, attention_mask, FALSE)
        sequence_output_dr == App1(<<"dropout">>, bert.encoded_layers)
        logits_rel == App1(<<"encode_rel_1">>, sequence_output_dr)
        re_sequence_output == App1(<<"view(-1,max_tok*hidden_size)">>, sequence_output_dr)
        logits_ent == App1(<<"view(-1,max_tok)">>,
                           App1(<<"encode_ent">>, re_sequence_output))
        ent_to_rel == App1(<<"view(-1,max_tok,5)">>,
                           App1(<<"repeat(1,1,5)">>,
                                App1(<<"view(-1,max_tok,1)">>, logits_ent)))
        rel_input == App1(<<"dropout2">>,
                         App1(<<"view(-1,(rel_dim+5)*max_tok)">>,
                              App2(<<"cat(dim=2)">>, logits_rel, ent_to_rel)))
        ent_input == App1(<<"dropout3">>,
                         App1(<<"view(-1,(hidden_size+rel_dim)*max_tok)">>,
                              App2(<<"cat(dim=2)">>, sequence_output_dr, logits_rel)))
        logits_rel_2 == App1(<<"encode_rel_2">>, rel_input)
        logits_ent_2 == App1(<<"view(-1,max_tok)">>, App1(<<"encode_ent_2">>, ent_input))
    IN  ReturnLogits(<<logits_rel_2, logits_ent_2>>)

\* BertForVer3_siamese_sub.forward with dropout2 left out
BertForVer3_siamese_sub_forwardMut(n, input_ids, token_type_ids, attention_mask) ==
    LET bert == BertModel_forward(n, input_ids, token_type_ids, attention_mask, FALSE)
        sequence_output_dr == App1(<<"dropout">>, bert.encoded_layers)
        logits_rel == App1(<<"encode_rel_1">>, sequence_output_dr)
        re_sequence_output == App1(<<"view(-1,max_tok*hidden_size)">>, sequence_output_dr)
        logits_ent == App1(<<"view(-1,max_tok)">>,
                           App1(<<"encode_ent">>, re_sequence_output))
        ent_to_rel == App1(<<"view(-1,max_tok,5)">>,
                           App1(<<"repeat(1,1,5)">>,
                                App1(<<"view(-1,max_tok,1)">>, logits_ent)))
        rel_input == App1(<<"view(-1,(rel_dim+5)*max_tok)">>,
                         App2(<<"cat(dim=2)">>, logits_rel, ent_to_rel))
        ent_input == App1(<<"dropout3">>,
                         App1(<<"view(-1,(hidden_size+rel_dim)*max_tok)">>,
                              App2(<<"cat(dim=2)">>, sequence_output_dr, logits_rel)))
        logits_rel_2 == App1(<<"encode_rel_2">>, rel_input)
        logits_ent_2 == App1(<<"view(-1,max_tok)">>, App1(<<"encode_ent_2">>, ent_input))
    IN  ReturnLogits(<<logits_rel_2, logits_ent_2>>)

\* BertForVer3_siamese_sub.forward
BertForVer3_siamese_sub_forward(n, input_ids, token_type_ids, attention_mask) ==
    LET bert == BertModel_forward(n, input_ids, token_type_ids, attention_mask, FALSE)
        sequence_output_dr == App1(<<"dropout">>, bert.encoded_layers)
        logits_rel == App1(<<"encode_rel_1">>, sequence_output_dr)
        re_sequence_output == App1(<<"view(-1,max_tok*hidden_size)">>, sequence_output_dr)
        logits_ent == App1(<<"view(-1,max_tok)">>,
                           App1(<<"encode_ent">>, re_sequence_output))
        ent_to_rel == App1(<<"view(-1,max_tok,5)">>,
                           App1(<<"repeat(1,1,5)">>,
                                App1(<<"view(-1,max_tok,1)">>, logits_ent)))
        rel_input == App1(<<"dropout2">>,
                         App1(<<"view(-1,(rel_dim+5)*max_tok)">>,
                              App2(<<"cat(dim=2)">>, logits_rel, ent_to_rel)))
        ent_input == App1(<<"dropout3">>,
                         App1(<<"view(-1,(hidden_size+rel_dim)*max_tok)">>,
                              App2(<<"cat(dim=2)">>, sequence_output_dr, logits_rel)))
        logits_rel_2 == App1(<<"encode_rel_2">>, rel_input)
        logits_ent_2 == App1(<<"view(-1,max_tok)">>, App1(<<"encode_ent_2">>, ent_input))
    IN  ReturnLogits(<<logits_rel_2, logits_ent_2>>)

(* --------------------------- from_pretrained -------------------------- *)

\* PRETRAINED_MODEL_ARCHIVE_MAP
PRETRAINED_MODEL_ARCHIVE_MAP ==
    [name \in {"bert-base-uncased", "bert-large-uncased", "bert-base-cased",
               "bert-large-cased", "bert-base-multilingual-uncased",
               "bert-base-multilingual-cased", "bert-base-chinese"} |->
       CASE name = "bert-base-uncased" ->
              "https://s3.amazonaws.com/models.huggingface.co/bert/bert-base-uncased.tar.gz"
         [] name = "bert-large-uncased" ->
              "https://s3.amazonaws.com/models.huggingface.co/bert/bert-large-uncased.tar.gz"
         [] name = "bert-base-cased" ->
              "https://s3.amazonaws.com/models.huggingface.co/bert/bert-base-cased.tar.gz"
         [] name = "bert-large-cased" ->
              "https://s3.amazonaws.com/models.huggingface.co/bert/bert-large-cased.tar.gz"
         [] name = "bert-base-multilingual-uncased" ->
              "https://s3.amazonaws.com/models.huggingface.co/bert/bert-base-multilingual-uncased.tar.gz"
         [] name = "bert-base-multilingual-cased" ->
              "https://s3.amazonaws.com/models.huggingface.co/bert/bert-base-multilingual-cased.tar.gz"
         [] name = "bert-base-chinese" ->
              "https://s3.amazonaws.com/models.huggingface.co/bert/bert-base-chinese.tar.gz"]

\* the archive from_pretrained looks for, taking every name as a path
ArchiveFileMut(pretrained_model_name_or_path) == pretrained_model_name_or_path

\* the archive from_pretrained looks for
ArchiveFile(pretrained_model_name_or_path) ==
    IF pretrained_model_name_or_path \in DOMAIN PRETRAINED_MODEL_ARCHIVE_MAP
    THEN PRETRAINED_MODEL_ARCHIVE_MAP[pretrained_model_name_or_path]
    ELSE pretrained_model_name_or_path

\* Strings the code searches and rewrites are sequences of characters.
\* p in s
Contains(s, p) ==
    \E i \in 1..(Len(s) - Len(p) + 1) : SubSeq(s, i, i + Len(p) - 1) = p

RECURSIVE Replace(_, _, _)
\* s.replace(p, r): every occurrence of p, leftmost first, none overlapping
Replace(s, p, r) ==
    IF Len(s) < Len(p) THEN s
    ELSE IF SubSeq(s, 1, Len(p)) = p
         THEN r \o Replace(SubSeq(s, Len(p) + 1, Len(s)), p, r)
         ELSE <<Head(s)>> \o Replace(Tail(s), p, r)

gamma == <<"g", "a", "m", "m", "a">>

beta == <<"b", "e", "t", "a">>

weight == <<"w", "e", "i", "g", "h", "t">>

bias == <<"b", "i", "a", "s">>

\* new_key of one key in the first loop of the renaming pass; None when the key stays
NewKey(key) ==
    LET k1 == IF Contains(key, gamma) THEN Replace(key, gamma, weight) ELSE None
    IN  IF Contains(key, beta) THEN Replace(key, beta, bias) ELSE k1

\* A state_dict is an ordered dict: a sequence of items with distinct keys.
\* key in d
HasKey(d, key) == \E i \in 1..Len(d) : d[i].key = key

\* d[key]
GetItem(d, key) == d[CHOOSE i \in 1..Len(d) : d[i].key = key].value

\* d after d.pop(key)
Pop(d, key) == SelectSeq(d, LAMBDA item : item.key # key)

\* d after d[key] = value: an existing key keeps its place, a new one goes last
SetItem(d, key, value) ==
    IF HasKey(d, key)
    THEN [i \in 1..Len(d) |-> IF d[i].key = key THEN [key |-> key, value |-> value]
                              ELSE d[i]]
    ELSE Append(d, [key |-> key, value |-> value])

RECURSIVE RenameLoop(_, _)
\* the second loop of the renaming pass over the remaining (old_key, new_key) pairs
RenameLoop(d, pairs) ==
    IF pairs = <<>> THEN d
    ELSE LET old_key == Head(pairs)[1]
             new_key == Head(pairs)[2]
             value == GetItem(d, old_key)
         IN  RenameLoop(SetItem(Pop(d, old_key), new_key, value), Tail(pairs))

\* the key-renaming pass of from_pretrained
RenameKeys(state_dict) ==
    LET renamed == SelectSeq(state_dict, LAMBDA item : NewKey(item.key) # None)
        pairs == [i \in 1..Len(renamed) |-> <<renamed[i].key, NewKey(renamed[i].key)>>]
    IN  RenameLoop(state_dict, pairs)

\* the state_dict torch.load reads from the archive's pytorch_model.bin
ArchiveWeights ==
    <<[key |-> <<"n", ".">> \o gamma, value |-> 1],
      [key |-> <<"n", ".">> \o beta, value |-> 2]>>

\* how a call of from_pretrained ends: what it returns or raises, the calls it made
\* that leave a trace outside it, and the state_dict it loads into the model
Outcome(archive_file, returned, raised, events, state_dict) ==
    [archive_file |-> archive_file, returned |-> returned, raised |-> raised,
     events |-> events, state_dict |-> state_dict]

\* BertPreTrainedModel.from_pretrained.  env says how the world answers: whether
\* cached_path finds the archive, whether it is a directory, a tar file or a tar
\* file with a member outside the target directory, and whether loading the
\* state_dict into the modules reports errors.
from_pretrained(pretrained_model_name_or_path, state_dict, from_tf, env) ==
    LET archive_file == ArchiveFile(pretrained_model_name_or_path)
        extract == ~(env.archive = "dir" \/ from_tf)
        before == IF extract THEN <<"mkdtemp">> ELSE <<>>
        after == IF extract THEN <<"rmtree">> ELSE <<>>
        weights == IF state_dict = None /\ ~from_tf THEN ArchiveWeights ELSE state_dict
    IN  IF ~env.found
        THEN Outcome(archive_file, "None", "", <<>>, None)
        ELSE IF extract /\ env.archive = "tar-traversal"
        THEN Outcome(archive_file, "", "Exception", before, None)
        ELSE IF from_tf
        THEN Outcome(archive_file, "model", "",
                     before \o <<"cls(config)">> \o after
                       \o <<"load_tf_weights_in_bert">>, None)
        ELSE IF env.load_errors
        THEN Outcome(archive_file, "", "RuntimeError",
                     before \o <<"cls(config)">> \o after, RenameKeys(weights))
        ELSE Outcome(archive_file, "model", "",
                     before \o <<"cls(config)">> \o after, RenameKeys(weights))

(* ----------------------- load_tf_weights_in_bert ----------------------- *)

\* the string literals load_tf_weights_in_bert compares the components of a name with
Literal ==
    [kernel |-> <<"k", "e", "r", "n", "e", "l">>,
     output_bias |-> <<"o", "u", "t", "p", "u", "t", "_", "b", "i", "a", "s">>,
     output_weights |-> <<"o", "u", "t", "p", "u", "t", "_", "w", "e", "i", "g", "h", "t", "s">>,
     adam_v |-> <<"a", "d", "a", "m", "_", "v">>,
     adam_m |-> <<"a", "d", "a", "m", "_", "m">>,
     embeddings_suffix |-> <<"_", "e", "m", "b", "e", "d", "d", "i", "n", "g", "s">>]

\* the words of TensorFlow variable names and of the attributes of the model
Component ==
    [bert |-> <<"b", "e", "r", "t">>,
     embeddings |-> <<"e", "m", "b", "e", "d", "d", "i", "n", "g", "s">>,
     word_embeddings |-> <<"w", "o", "r", "d", "_", "e", "m", "b", "e", "d", "d", "i", "n", "g", "s">>,
     LayerNorm |-> <<"L", "a", "y", "e", "r", "N", "o", "r", "m">>,
     encoder |-> <<"e", "n", "c", "o", "d", "e", "r">>,
     layer |-> <<"l", "a", "y", "e", "r">>,
     output |-> <<"o", "u", "t", "p", "u", "t">>,
     dense |-> <<"d", "e", "n", "s", "e">>,
     cls |-> <<"c", "l", "s">>,
     seq_relationship |-> <<"s", "e", "q", "_", "r", "e", "l", "a", "t", "i", "o", "n", "s", "h", "i", "p">>,
     global_step |-> <<"g", "l", "o", "b", "a", "l", "_", "s", "t", "e", "p">>]

\* [A-Za-z]
Letters ==
    {"a", "b", "c", "d", "e", "f", "g", "h", "i", "j", "k", "l", "m", "n", "o", "p", "q", "r", "s", "t", "u", "v", "w", "x", "y", "z",
     "A", "B", "C", "D", "E", "F", "G", "H", "I", "J", "K", "L", "M", "N", "O", "P", "Q", "R", "S", "T", "U", "V", "W", "X", "Y", "Z"}

\* \d
Digits == {"0", "1", "2", "3", "4", "5", "6", "7", "8", "9"}

DigitValue ==
    ("0" :> 0) @@ ("1" :> 1) @@ ("2" :> 2) @@ ("3" :> 3) @@ ("4" :> 4) @@
    ("5" :> 5) @@ ("6" :> 6) @@ ("7" :> 7) @@ ("8" :> 8) @@ ("9" :> 9)

\* re.fullmatch(r'[A-Za-z]+_\d+', m_name) is not None
re_fullmatch(m_name) ==
    \E k \in 2..(Len(m_name) - 1) :
        /\ m_name[k] = "_"
        /\ \A i \in 1..(k - 1) : m_name[i] \in Letters
        /\ \A i \in (k + 1)..Len(m_name) : m_name[i] \in Digits

\* re.split(r'_(\d+)', m_name) of a name that matches: [letters, digits, '']
re_split(m_name) ==
    LET k == CHOOSE k \in 1..Len(m_name) : m_name[k] = "_"
    IN  <<SubSeq(m_name, 1, k - 1), SubSeq(m_name, k + 1, Len(m_name)), <<>>>>

RECURSIVE int(_)
\* int(digits)
int(digits) ==
    IF digits = <<>> THEN 0
    ELSE 10 * int(SubSeq(digits, 1, Len(digits) - 1)) + DigitValue[Last(digits)]

\* A pointer into the model is the path of the selections that lead to it:
\* getattr(pointer, name) and pointer[num].
Attr(name) == [attr |-> name, item |-> -1]

Item(num) == [attr |-> <<>>, item |-> num]

\* The parameters of a BertForPreTraining of n layers that the words of
\* Component name, each with its shape.
Parameters(n) ==
    LET b == <<Attr(Component.bert)>>
        e == b \o <<Attr(Component.embeddings)>>
        o(i) == b \o <<Attr(Component.encoder), Attr(Component.layer), Item(i),
                       Attr(Component.output)>>
        s == <<Attr(Component.cls), Attr(Component.seq_relationship)>>
    IN  {<<e \o <<Attr(Component.word_embeddings), Attr(weight)>>, <<vocab_size, hidden_size>>>>,
         <<e \o <<Attr(Component.LayerNorm), Attr(weight)>>, <<hidden_size>>>>,
         <<e \o <<Attr(Component.LayerNorm), Attr(bias)>>, <<hidden_size>>>>,
         <<s \o <<Attr(weight)>>, <<2, hidden_size>>>>,
         <<s \o <<Attr(bias)>>, <<2>>>>}
        \cup UNION {{<<o(i) \o <<Attr(Component.dense), Attr(weight)>>,
                       <<hidden_size, intermediate_size>>>>,
                     <<o(i) \o <<Attr(Component.dense), Attr(bias)>>, <<hidden_size>>>>,
                     <<o(i) \o <<Attr(Component.LayerNorm), Attr(weight)>>, <<hidden_size>>>>,
                     <<o(i) \o <<Attr(Component.LayerNorm), Attr(bias)>>, <<hidden_size>>>>}
                    : i \in 0..(n - 1)}

\* pointer is a module: parameters lie below it
IsModule(n, pointer) ==
    \E p \in Parameters(n) :
        Len(p[1]) > Len(pointer) /\ SubSeq(p[1], 1, Len(pointer)) = pointer

\* pointer is a ModuleList: its children are its elements
IsModuleList(n, pointer) ==
    \E p \in Parameters(n) :
        /\ Len(p[1]) > Len(pointer)
        /\ SubSeq(p[1], 1, Len(pointer)) = pointer
        /\ p[1][Len(pointer) + 1].item >= 0

\* pointer is a tensor: a parameter, or what indexing a parameter gave
IsTensor(n, pointer) ==
    \E p \in Parameters(n) :
        /\ Len(p[1]) <= Len(pointer)
        /\ SubSeq(pointer, 1, Len(p[1])) = p[1]
        /\ Len(pointer) - Len(p[1]) <= Len(p[2])
        /\ \A i \in 1..(Len(pointer) - Len(p[1])) :
               /\ pointer[Len(p[1]) + i].item >= 0
               /\ pointer[Len(p[1]) + i].item < p[2][i]

\* pointer.shape of a tensor
shape_of(n, pointer) ==
    LET p == CHOOSE p \in Parameters(n) :
                 Len(p[1]) <= Len(pointer) /\ SubSeq(pointer, 1, Len(p[1])) = p[1]
    IN  SubSeq(p[2], Len(pointer) - Len(p[1]) + 1, Len(p[2]))

\* The walk of a name is at a pointer, or has raised; a raise ends it.
At(pointer) == [raised |-> "", pointer |-> pointer]

Raised(exception) == [raised |-> exception, pointer |-> <<>>]

\* getattr(pointer, name)
getattr(n, walk, name) ==
    IF walk.raised # "" THEN walk
    ELSE IF IsModule(n, walk.pointer \o <<Attr(name)>>) \/ IsTensor(n, walk.pointer \o <<Attr(name)>>)
         THEN At(walk.pointer \o <<Attr(name)>>)
         ELSE Raised("AttributeError")

\* pointer[num]
getitem(n, walk, num) ==
    IF walk.raised # "" THEN walk
    ELSE IF ~(IsModuleList(n, walk.pointer) \/ IsTensor(n, walk.pointer))
         THEN Raised("TypeError")
    ELSE IF IsModule(n, walk.pointer \o <<Item(num)>>) \/ IsTensor(n, walk.pointer \o <<Item(num)>>)
         THEN At(walk.pointer \o <<Item(num)>>)
         ELSE Raised("IndexError")

\* the attribute the word l[0] selects, with output_weights taken as it stands
AttributeMut(l0) ==
    IF l0 = Literal.kernel \/ l0 = gamma THEN weight
    ELSE IF l0 = Literal.output_bias \/ l0 = beta THEN bias
    ELSE l0

\* the attribute the word l[0] selects
Attribute(l0) ==
    IF l0 = Literal.kernel \/ l0 = gamma THEN weight
    ELSE IF l0 = Literal.output_bias \/ l0 = beta THEN bias
    ELSE IF l0 = Literal.output_weights THEN weight
    ELSE l0

\* l of a component: its split when it matches, else the component alone
SplitComponent(m_name) ==
    IF re_fullmatch(m_name) THEN re_split(m_name) ELSE <<m_name>>

\* if len(l) >= 2: pointer = pointer[int(l[1])]
IndexByDigits(n, walk, l) ==
    IF Len(l) >= 2 THEN getitem(n, walk, int(l[2])) ELSE walk

\* one round of the loop over the components of a name
WalkComponent(n, walk, m_name) ==
    IndexByDigits(n, getattr(n, walk, Attribute(SplitComponent(m_name)[1])),
                  SplitComponent(m_name))

RECURSIVE WalkName(_, _, _, _)
\* the loop over the components of a name, from component i on
WalkName(n, walk, name, i) ==
    IF i > Len(name) THEN walk
    ELSE WalkName(n, WalkComponent(n, walk, name[i]), name, i + 1)

\* m_name[-11:]
Suffix11(m_name) ==
    SubSeq(m_name, IF Len(m_name) > 11 THEN Len(m_name) - 10 ELSE 1, Len(m_name))

\* np.transpose(array)
transpose(array) ==
    [shape |-> [i \in 1..Len(array.shape) |-> array.shape[Len(array.shape) + 1 - i]],
     transposed |-> ~array.transposed]

\* any(n in ["adam_v", "adam_m"] for n in name)
IsOptimizerVariable(name) ==
    \E i \in 1..Len(name) : name[i] \in {Literal.adam_v, Literal.adam_m}

\* after the walk: a final component ending in '_embeddings' selects weight
FinalPointer(n, walk, m_name) ==
    IF Suffix11(m_name) = Literal.embeddings_suffix THEN getattr(n, walk, weight) ELSE walk

\* after the walk: the array of a final component 'kernel' is transposed
FinalArray(m_name, array) ==
    IF Suffix11(m_name) # Literal.embeddings_suffix /\ m_name = Literal.kernel
    THEN transpose(array)
    ELSE array

\* assert pointer.shape == array.shape; pointer.data = torch.from_numpy(array)
AssignData(n, loaded, name, walk, array) ==
    IF walk.raised # "" THEN [raised |-> walk.raised, events |-> loaded.events]
    ELSE IF ~IsTensor(n, walk.pointer)
         THEN [raised |-> "AttributeError", events |-> loaded.events]
    ELSE IF shape_of(n, walk.pointer) # array.shape
         THEN [raised |-> "AssertionError", events |-> loaded.events]
    ELSE [raised |-> "",
          events |-> loaded.events \o <<[name |-> name, pointer |-> walk.pointer, array |-> array]>>]

\* The body of the loop over the variables for one that is not skipped: the
\* assignment pointer.data = array it makes, or what it raises.
LoadVariable(n, loaded, name, array) ==
    AssignData(n, loaded, name, FinalPointer(n, WalkName(n, At(<<>>), name, 1), Last(name)),
               FinalArray(Last(name), array))

RECURSIVE LoadLoop(_, _, _, _)
\* the loop over the variables of the checkpoint, from variable i on; a raise ends it
LoadLoop(n, checkpoint, i, loaded) ==
    IF i > Len(checkpoint) \/ loaded.raised # "" THEN loaded
    ELSE IF IsOptimizerVariable(checkpoint[i].name)
         THEN LoadLoop(n, checkpoint, i + 1, loaded)
    ELSE LoadLoop(n, checkpoint, i + 1,
                  LoadVariable(n, loaded, checkpoint[i].name, checkpoint[i].array))

\* load_tf_weights_in_bert(model, tf_checkpoint_path): the assignments to the
\* parameters of the model, in order, and what was raised
load_tf_weights_in_bert(n, tensorflow, checkpoint) ==
    IF ~tensorflow THEN [raised |-> "ImportError", events |-> <<>>]
    ELSE LoadLoop(n, checkpoint, 1, [raised |-> "", events |-> <<>>])

(* ------------------------------ inputs -------------------------------- *)

\* the shapes [B, S] of a batch
Shapes == (1..MaxBatch) \X (1..MaxSeq)

\* the token ids of a batch of shape [B, S]
InputIds(B, S) == [b \in 1..B |-> [s \in 1..S |-> b + s]]

\* every 0/1 tensor of shape [B, S]
Binary(B, S) == [1..B -> [1..S -> {0, 1}]]

\* padding masks: all ones, or the last position of the last row padded
PaddingMasks(B, S) ==
    {ones_like(InputIds(B, S)),
     [b \in 1..B |-> [s \in 1..S |-> IF b = B /\ s = S THEN 0 ELSE 1]]}

\* token types: None, all sentence A, or the last position sentence B
TokenTypes(B, S) ==
    {None, zeros_like(InputIds(B, S)),
     [b \in 1..B |-> [s \in 1..S |-> IF s = S THEN 1 ELSE 0]]}

\* attention masks of a head: None or a padding mask
HeadMasks(B, S) == PaddingMasks(B, S) \cup {None}

\* masked language modeling labels [B, S]; -1 marks a position to ignore
MaskedLMLabels(B, S) == [b \in 1..B |-> [s \in 1..S |-> IF s = 1 THEN -1 ELSE b + s]]

\* one class label per batch entry
BatchLabels(B) == [b \in 1..B |-> b % 2]

\* one label per token, all different
TokenLabels(B, S) == [b \in 1..B |-> [s \in 1..S |-> (b - 1) * S + s - 1]]

\* answer positions of a batch: inside the sequence, or one step before its start, at its length, or one step past it
Positions(B, S) == [1..B -> (-1)..(S + 1)]

\* the same position in every batch entry
SamePosition(B, S) == {[b \in 1..B |-> p] : p \in (-1)..(S + 1)}

\* a tensor [B, C, S] holding x for every choice
PerChoice(x) == [b \in 1..Len(x) |-> [c \in 1..NumChoices |-> x[b]]]

\* the arguments of a call of BertModel.forward
BertModelArgs ==
    UNION {[op : {"BertModel.forward"},
            input_ids : {InputIds(shape[1], shape[2])},
            token_type_ids : TokenTypes(shape[1], shape[2]),
            attention_mask : Binary(shape[1], shape[2]) \cup {None},
            output_all_encoded_layers : BOOLEAN] : shape \in Shapes}

\* the arguments of a call of BertForPreTraining.forward
BertForPreTrainingArgs ==
    UNION {[op : {"BertForPreTraining.forward"},
            input_ids : {InputIds(shape[1], shape[2])},
            token_type_ids : TokenTypes(shape[1], shape[2]),
            attention_mask : HeadMasks(shape[1], shape[2]),
            masked_lm_labels : {None, MaskedLMLabels(shape[1], shape[2])},
            next_sentence_label : {None, BatchLabels(shape[1])}] : shape \in Shapes}

\* the arguments of a call of BertForMaskedLM.forward
BertForMaskedLMArgs ==
    UNION {[op : {"BertForMaskedLM.forward"},
            input_ids : {InputIds(shape[1], shape[2])},
            token_type_ids : TokenTypes(shape[1], shape[2]),
            attention_mask : HeadMasks(shape[1], shape[2]),
            masked_lm_labels : {None, MaskedLMLabels(shape[1], shape[2])}] :
           shape \in Shapes}

\* the arguments of a call of BertForNextSentencePrediction.forward
BertForNextSentencePredictionArgs ==
    UNION {[op : {"BertForNextSentencePrediction.forward"},
            input_ids : {InputIds(shape[1], shape[2])},
            token_type_ids : TokenTypes(shape[1], shape[2]),
            attention_mask : HeadMasks(shape[1], shape[2]),
            next_sentence_label : {None, BatchLabels(shape[1])}] : shape \in Shapes}

\* the arguments of a call of BertForSequenceClassification.forward
BertForSequenceClassificationArgs ==
    UNION {[op : {"BertForSequenceClassification.forward"},
            input_ids : {InputIds(shape[1], shape[2])},
            token_type_ids : TokenTypes(shape[1], shape[2]),
            attention_mask : HeadMasks(shape[1], shape[2]),
            labels : {None, BatchLabels(shape[1])}] : shape \in Shapes}

\* the arguments of a call of BertForMultipleChoice.forward
BertForMultipleChoiceArgs ==
    UNION {[op : {"BertForMultipleChoice.forward"},
            input_ids : {PerChoice(InputIds(shape[1], shape[2]))},
            token_type_ids : {None, PerChoice(zeros_like(InputIds(shape[1], shape[2])))},
            attention_mask : {IF m = None THEN None ELSE PerChoice(m) :
                              m \in HeadMasks(shape[1], shape[2])},
            labels : {None, BatchLabels(shape[1])}] : shape \in Shapes}

\* the arguments of a call of BertForTokenClassification.forward
BertForTokenClassificationArgs ==
    UNION {[op : {"BertForTokenClassification.forward"},
            input_ids : {InputIds(shape[1], shape[2])},
            token_type_ids : {None},
            attention_mask : Binary(shape[1], shape[2]) \cup {None},
            labels : {None, TokenLabels(shape[1], shape[2])}] : shape \in Shapes}

\* the arguments of a call of BertForQuestionAnswering.forward
BertForQuestionAnsweringArgs ==
    UNION {[op : {"BertForQuestionAnswering.forward"},
            input_ids : {InputIds(shape[1], shape[2])},
            token_type_ids : {None},
            attention_mask : HeadMasks(shape[1], shape[2]),
            start_positions : Positions(shape[1], shape[2]) \cup {None},
            end_positions : SamePosition(shape[1], shape[2]) \cup {None}] :
           shape \in Shapes}

\* keys of a state_dict: with gamma, with beta, with neither, with gamma twice,
\* with both
Keys ==
    {<<"n", ".">> \o gamma, <<"n", ".">> \o beta, <<"n", ".">> \o weight,
     <<"n", ".">> \o bias, <<"n", ".", "n">>, gamma \o <<".">> \o gamma,
     gamma \o <<".">> \o beta, beta \o <<".">> \o gamma}

\* the state_dicts of at most MaxKeys items; item i holds tensor i
StateDicts ==
    {d \in UNION {[1..n -> [key : Keys, value : 1..MaxKeys]] : n \in 1..MaxKeys} :
       /\ \A i \in 1..Len(d) : d[i].value = i
       /\ \A i, j \in 1..Len(d) : i # j => d[i].key # d[j].key}

\* how the world may answer a call of from_pretrained
Envs ==
    {[found |-> FALSE, archive |-> "dir", load_errors |-> FALSE]}
      \cup [found : {TRUE}, archive : {"dir", "tar", "tar-traversal"},
            load_errors : BOOLEAN]

\* the arguments of a call of from_pretrained: any name with the archive's own
\* weights, or a path with a state_dict handed in
from_pretrainedArgs ==
    [op : {"from_pretrained"},
     pretrained_model_name_or_path :
        DOMAIN PRETRAINED_MODEL_ARCHIVE_MAP \cup {"/models/bert", "bert-base"},
     state_dict : {None}, from_tf : BOOLEAN, env : Envs]
      \cup [op : {"from_pretrained"},
            pretrained_model_name_or_path : {"/models/bert"},
            state_dict : StateDicts, from_tf : {FALSE},
            env : {e \in Envs : e.found /\ e.archive # "tar-traversal"}]

\* the arguments of a call of one of the siamese variants' forward pass
SiameseArgs(op) ==
    UNION {[op : {op},
            input_ids : {InputIds(shape[1], shape[2])},
            token_type_ids : TokenTypes(shape[1], shape[2]),
            attention_mask : HeadMasks(shape[1], shape[2])] : shape \in Shapes}

\* the name of a TensorFlow variable, split on '/'
LayerNormName == <<Component.bert, Component.embeddings, Component.LayerNorm>>

SeqRelationshipName == <<Component.cls, Component.seq_relationship>>

LayerName(k) == <<Component.bert, Component.encoder, Component.layer \o <<"_">> \o Tok(k)>>

\* an array as tf.train.load_variable gives it
Array(dims) == [shape |-> dims, transposed |-> FALSE]

\* the variables a checkpoint is made of: their names and arrays
TfVariables ==
    {[name |-> <<Component.bert, Component.embeddings, Component.word_embeddings>>,
      array |-> Array(<<vocab_size, hidden_size>>)],
     [name |-> LayerNormName \o <<gamma>>, array |-> Array(<<hidden_size>>)],
     [name |-> LayerNormName \o <<beta>>, array |-> Array(<<hidden_size>>)],
     [name |-> LayerNormName \o <<gamma \o <<"_", "0">>>>, array |-> Array(<<>>)],
     [name |-> LayerNormName \o <<gamma, Literal.adam_m>>, array |-> Array(<<hidden_size>>)],
     [name |-> SeqRelationshipName \o <<Literal.output_weights>>,
      array |-> Array(<<2, hidden_size>>)],
     [name |-> SeqRelationshipName \o <<Literal.output_bias>>, array |-> Array(<<2>>)],
     [name |-> SeqRelationshipName \o <<Literal.output_bias, Literal.adam_v>>,
      array |-> Array(<<2>>)],
     [name |-> <<Component.global_step>>, array |-> Array(<<>>)],
     [name |-> LayerName(0), array |-> Array(<<>>)],
     [name |-> LayerName(0) \o <<Component.output, Component.dense, bias>>,
      array |-> Array(<<hidden_size>>)],
     [name |-> LayerName(0) \o <<Component.output, Component.dense, Literal.kernel>>,
      array |-> Array(<<hidden_size, intermediate_size>>)]}
    \cup {[name |-> LayerName(k) \o <<Component.output, Component.dense, Literal.kernel>>,
           array |-> Array(<<intermediate_size, hidden_size>>)] : k \in 0..MaxLayers}

\* the arguments of a call of load_tf_weights_in_bert: the checkpoint at
\* tf_checkpoint_path, and whether tensorflow can be imported
load_tf_weights_in_bertArgs ==
    [op : {"load_tf_weights_in_bert"}, tensorflow : {TRUE},
     checkpoint : UNION {[1..k -> TfVariables] : k \in 0..MaxVars}]
    \cup [op : {"load_tf_weights_in_bert"}, tensorflow : {FALSE}, checkpoint : {<<>>}]

(* ------------------------------ actions ------------------------------- *)

\* the configs a model is built from
Configs(cls) == [cls : {cls}, num_hidden_layers : 0..MaxLayers]

\* A model of one class is constructed from a config and one call of it is pending.
Init ==
    /\ pc = "call"
    /\ ret = None
    /\ trace = None
    /\ \/ model \in Configs("BertModel") /\ args \in BertModelArgs
       \/ model \in Configs("BertForPreTraining") /\ args \in BertForPreTrainingArgs
       \/ model \in Configs("BertForMaskedLM") /\ args \in BertForMaskedLMArgs
       \/ /\ model \in Configs("BertForNextSentencePrediction")
          /\ args \in BertForNextSentencePredictionArgs
       \/ /\ model \in Configs("BertForSequenceClassification")
          /\ args \in BertForSequenceClassificationArgs
       \/ model \in Configs("BertForMultipleChoice") /\ args \in BertForMultipleChoiceArgs
       \/ /\ model \in Configs("BertForTokenClassification")
          /\ args \in BertForTokenClassificationArgs
       \/ /\ model \in Configs("BertForQuestionAnswering")
          /\ args \in BertForQuestionAnsweringArgs
       \/ model = None /\ args \in from_pretrainedArgs
       \/ /\ model \in Configs("BertForPreTraining")
          /\ args \in load_tf_weights_in_bertArgs
       \/ /\ model \in Configs("BertForVer3_siamese_sub")
          /\ args \in SiameseArgs("BertForVer3_siamese_sub.forward")
       \/ /\ model \in Configs("BertForVer3_siamese_main_once")
          /\ args \in SiameseArgs("BertForVer3_siamese_main_once.forward_once")
       \/ /\ model \in Configs("BertForVer3_siamese_main_once_intraatt")
          /\ args \in SiameseArgs("BertForVer3_siamese_main_once_intraatt.forward_once")

\* model(input_ids, token_type_ids, attention_mask, output_all_encoded_layers) of a BertModel
BertModelForward ==
    /\ pc = "call"
    /\ args.op = "BertModel.forward"
    /\ LET B == Len(args.input_ids)
           S == Len(args.input_ids[1])
           ext == ExtendedAttentionMask(args.input_ids, args.attention_mask)
       IN  /\ ret' = BertModel_forward(model.num_hidden_layers, args.input_ids,
                                       args.token_type_ids, args.attention_mask,
                                       args.output_all_encoded_layers)
           /\ trace' = [extended_attention_mask |-> ext,
                        attention_scores |-> AttentionScores(B, S, ext)]
    /\ pc' = "done"
    /\ UNCHANGED <<model, args>>

\* a call of a BertForPreTraining
BertForPreTrainingForward ==
    /\ pc = "call"
    /\ args.op = "BertForPreTraining.forward"
    /\ ret' = BertForPreTraining_forward(model.num_hidden_layers, args.input_ids,
                  args.token_type_ids, args.attention_mask, args.masked_lm_labels,
                  args.next_sentence_label)
    /\ pc' = "done"
    /\ UNCHANGED <<model, args, trace>>

\* a call of a BertForMaskedLM
BertForMaskedLMForward ==
    /\ pc = "call"
    /\ args.op = "BertForMaskedLM.forward"
    /\ ret' = BertForMaskedLM_forward(model.num_hidden_layers, args.input_ids,
                  args.token_type_ids, args.attention_mask, args.masked_lm_labels)
    /\ pc' = "done"
    /\ UNCHANGED <<model, args, trace>>

\* a call of a BertForNextSentencePrediction
BertForNextSentencePredictionForward ==
    /\ pc = "call"
    /\ args.op = "BertForNextSentencePrediction.forward"
    /\ ret' = BertForNextSentencePrediction_forward(model.num_hidden_layers,
                  args.input_ids, args.token_type_ids, args.attention_mask,
                  args.next_sentence_label)
    /\ pc' = "done"
    /\ UNCHANGED <<model, args, trace>>

\* a call of a BertForSequenceClassification
BertForSequenceClassificationForward ==
    /\ pc = "call"
    /\ args.op = "BertForSequenceClassification.forward"
    /\ ret' = BertForSequenceClassification_forward(model.num_hidden_layers,
                  args.input_ids, args.token_type_ids, args.attention_mask, args.labels)
    /\ pc' = "done"
    /\ UNCHANGED <<model, args, trace>>

\* a call of a BertForMultipleChoice
BertForMultipleChoiceForward ==
    /\ pc = "call"
    /\ args.op = "BertForMultipleChoice.forward"
    /\ ret' = BertForMultipleChoice_forward(model.num_hidden_layers, args.input_ids,
                  args.token_type_ids, args.attention_mask, args.labels)
    /\ pc' = "done"
    /\ UNCHANGED <<model, args, trace>>

\* a call of a BertForTokenClassification
BertForTokenClassificationForward ==
    /\ pc = "call"
    /\ args.op = "BertForTokenClassification.forward"
    /\ ret' = BertForTokenClassification_forward(model.num_hidden_layers,
                  args.input_ids, args.token_type_ids, args.attention_mask, args.labels)
    /\ trace' = IF args.labels # None
                THEN ActiveLoss(args.attention_mask, args.labels)
                ELSE None
    /\ pc' = "done"
    /\ UNCHANGED <<model, args>>

\* a call of a BertForQuestionAnswering; clamp_ changes the caller's tensors in place
BertForQuestionAnsweringForward ==
    /\ pc = "call"
    /\ args.op = "BertForQuestionAnswering.forward"
    /\ ret' = BertForQuestionAnswering_forward(model.num_hidden_layers, args.input_ids,
                  args.token_type_ids, args.attention_mask, args.start_positions,
                  args.end_positions)
    /\ trace' = IF args.start_positions # None /\ args.end_positions # None
                THEN LET ignored_index == Len(args.input_ids[1])
                         starts == ClampPositions(args.start_positions, ignored_index)
                         ends == ClampPositions(args.end_positions, ignored_index)
                     IN  [start_positions |-> starts,
                          end_positions |-> ends,
                          start_counted |-> Counted(starts, ignored_index),
                          end_counted |-> Counted(ends, ignored_index)]
                ELSE None
    /\ pc' = "done"
    /\ UNCHANGED <<model, args>>

\* a call of BertModel.from_pretrained; the archive's config has MaxLayers layers
FromPretrained ==
    /\ pc = "call"
    /\ args.op = "from_pretrained"
    /\ LET out == from_pretrained(args.pretrained_model_name_or_path, args.state_dict,
                                  args.from_tf, args.env)
       IN  /\ ret' = [raised |-> out.raised, returned |-> out.returned]
           /\ trace' = [archive_file |-> out.archive_file, events |-> out.events,
                        state_dict |-> out.state_dict]
           /\ model' = IF out.returned = "model"
                       THEN [cls |-> "BertModel", num_hidden_layers |-> MaxLayers]
                       ELSE model
    /\ pc' = "done"
    /\ UNCHANGED args

\* a call of a BertForVer3_siamese_sub
BertForVer3SiameseSubForward ==
    /\ pc = "call"
    /\ args.op = "BertForVer3_siamese_sub.forward"
    /\ ret' = BertForVer3_siamese_sub_forward(model.num_hidden_layers, args.input_ids,
                  args.token_type_ids, args.attention_mask)
    /\ pc' = "done"
    /\ UNCHANGED <<model, args, trace>>

\* a call of forward_once of a BertForVer3_siamese_main_once
BertForVer3SiameseMainOnceForwardOnce ==
    /\ pc = "call"
    /\ args.op = "BertForVer3_siamese_main_once.forward_once"
    /\ ret' = BertForVer3_siamese_main_once_forward_once(model.num_hidden_layers,
                  args.input_ids, args.token_type_ids, args.attention_mask)
    /\ pc' = "done"
    /\ UNCHANGED <<model, args, trace>>

\* a call of forward_once of a BertForVer3_siamese_main_once_intraatt
BertForVer3SiameseIntraattForwardOnce ==
    /\ pc = "call"
    /\ args.op = "BertForVer3_siamese_main_once_intraatt.forward_once"
    /\ ret' = BertForVer3_siamese_main_once_intraatt_forward_once(
                  model.num_hidden_layers, args.input_ids, args.token_type_ids,
                  args.attention_mask)
    /\ pc' = "done"
    /\ UNCHANGED <<model, args, trace>>

\* a call of load_tf_weights_in_bert on a BertForPreTraining
LoadTfWeightsInBert ==
    /\ pc = "call"
    /\ args.op = "load_tf_weights_in_bert"
    /\ ret' = load_tf_weights_in_bert(model.num_hidden_layers, args.tensorflow, args.checkpoint)
    /\ pc' = "done"
    /\ UNCHANGED <<model, args, trace>>

Next ==
    \/ BertModelForward
    \/ BertForPreTrainingForward
    \/ BertForMaskedLMForward
    \/ BertForNextSentencePredictionForward
    \/ BertForSequenceClassificationForward
    \/ BertForMultipleChoiceForward
    \/ BertForTokenClassificationForward
    \/ BertForQuestionAnsweringForward
    \/ FromPretrained
    \/ BertForVer3SiameseSubForward
    \/ BertForVer3SiameseMainOnceForwardOnce
    \/ BertForVer3SiameseIntraattForwardOnce
    \/ LoadTfWeightsInBert

Spec == Init /\ [][Next]_vars

(* ------------------------------- claims ------------------------------- *)

\* the call of `op` has returned
Returned(op) == pc = "done" /\ args.op = op

\* a term holds a loss
HasLoss(t) == \E i \in 1..Len(t) : t[i] = "CrossEntropyLoss"

\* a pair of logits, no loss in either
LogitsPair(r) ==
    /\ r.raised = ""
    /\ r.loss = None
    /\ Len(r.logits) = 2
    /\ ~HasLoss(r.logits[1])
    /\ ~HasLoss(r.logits[2])

\* a single loss and no logits
SingleLoss(r) == r.raised = "" /\ r.logits = None /\ HasLoss(r.loss)

\* one term of logits and no loss
LogitsOnly(r) == r.raised = "" /\ r.loss = None /\ r.logits # None /\ ~HasLoss(r.logits)

RECURSIVE HiddenAfter(_, _, _)
\* the hidden state after the first i encoder layers
HiddenAfter(i, embedding_output, ext) ==
    IF i = 0 THEN embedding_output
    ELSE BertLayer_forward(i - 1, HiddenAfter(i - 1, embedding_output, ext), ext)

\* C1: with num_hidden_layers >= 1, BertModel.forward with
\* output_all_encoded_layers=True returns exactly num_hidden_layers hidden states,
\* entry i being encoder layer i applied to entry i-1 (layer 0 to the embedding
\* output); with False it returns only the last layer's hidden state; in both
\* cases pooled_output is the pooler applied to the last layer's hidden state.
C1_EncodedLayers ==
    (Returned("BertModel.forward") /\ model.num_hidden_layers >= 1) =>
        LET n == model.num_hidden_layers
            emb == BertEmbeddings_forward(args.input_ids, args.token_type_ids)
            ext == trace.extended_attention_mask
            last == HiddenAfter(n, emb, ext)
        IN  /\ ret.raised = ""
            /\ IF args.output_all_encoded_layers
               THEN /\ Len(ret.encoded_layers) = n
                    /\ \A i \in 1..n :
                         ret.encoded_layers[i] =
                           BertLayer_forward(i - 1,
                               IF i = 1 THEN emb ELSE ret.encoded_layers[i - 1], ext)
               ELSE ret.encoded_layers = last
            /\ ret.pooled_output = BertPooler_forward(last)

C1_Witness ==
    /\ Returned("BertModel.forward")
    /\ model.num_hidden_layers >= 2
    /\ args.output_all_encoded_layers
    /\ ret.raised = ""
    /\ Len(ret.encoded_layers) = model.num_hidden_layers

\* C2: BertForPreTraining.forward returns a single total loss iff both
\* masked_lm_labels and next_sentence_label are given, BertForQuestionAnswering.forward
\* iff both start_positions and end_positions are given; otherwise each returns the
\* pair of logits and computes no loss.
C2_LossIffBothLabels ==
    /\ Returned("BertForPreTraining.forward") =>
         IF args.masked_lm_labels # None /\ args.next_sentence_label # None
         THEN SingleLoss(ret) ELSE LogitsPair(ret)
    /\ Returned("BertForQuestionAnswering.forward") =>
         IF args.start_positions # None /\ args.end_positions # None
         THEN SingleLoss(ret) ELSE LogitsPair(ret)

C2_Witness ==
    /\ Returned("BertForQuestionAnswering.forward")
    /\ args.start_positions # None
    /\ args.end_positions = None
    /\ LogitsPair(ret)

\* C3: BertForMaskedLM, BertForNextSentencePrediction, BertForSequenceClassification
\* and BertForTokenClassification return the loss (not the logits) exactly when
\* the label argument is given, and the logits (no loss) exactly when it is None.
C3_LossIffLabel ==
    /\ Returned("BertForMaskedLM.forward") =>
         IF args.masked_lm_labels # None THEN SingleLoss(ret) ELSE LogitsOnly(ret)
    /\ Returned("BertForNextSentencePrediction.forward") =>
         IF args.next_sentence_label # None THEN SingleLoss(ret) ELSE LogitsOnly(ret)
    /\ Returned("BertForSequenceClassification.forward") =>
         IF args.labels # None THEN SingleLoss(ret) ELSE LogitsOnly(ret)
    /\ Returned("BertForTokenClassification.forward") =>
         IF args.labels # None THEN SingleLoss(ret) ELSE LogitsOnly(ret)

C3_Witness ==
    /\ Returned("BertForSequenceClassification.forward")
    /\ args.labels # None
    /\ SingleLoss(ret)

\* C4 (as claimed): in BertForQuestionAnswering.forward with both positions given,
\* the positions are clamped to the length of the sequence and every position
\* outside 0..sequence_length-1, negative ones included, is not counted in the loss.
C4_OutsideIgnored ==
    (Returned("BertForQuestionAnswering.forward")
       /\ args.start_positions # None /\ args.end_positions # None) =>
        LET S == Len(args.input_ids[1])
            B == Len(args.input_ids)
        IN  \A b \in 1..B :
              /\ trace.start_positions[b] \in 0..S
              /\ trace.end_positions[b] \in 0..S
              /\ args.start_positions[b] \notin 0..(S - 1) => b \notin trace.start_counted
              /\ args.end_positions[b] \notin 0..(S - 1) => b \notin trace.end_counted

C6_OptionalArguments ==
    Returned("BertForMultipleChoice.forward") =>
        /\ ret.raised = ""
        /\ IF args.labels # None
           THEN SingleLoss(ret)
           ELSE LogitsOnly(ret) /\ ret.logits[1] = "view(-1,num_choices)"

\* C7: in BertForTokenClassification.forward with labels given and an attention
\* mask, the loss is computed over exactly the (batch, position) pairs whose mask
\* value is 1, each kept logit row paired with the label of the same flattened
\* position; without a mask it is computed over every position.
C7_ActiveLoss ==
    (Returned("BertForTokenClassification.forward") /\ args.labels # None) =>
        LET B == Len(args.input_ids)
            S == Len(args.input_ids[1])
            kept == {<<b, s>> \in (1..B) \X (1..S) :
                       args.attention_mask = None \/ args.attention_mask[b][s] = 1}
            rows == trace.rows
        IN  /\ {rows[j] : j \in 1..Len(rows)} = {(p[1] - 1) * S + p[2] : p \in kept}
            /\ Len(rows) = Cardinality(kept)
            /\ Len(trace.labels) = Len(rows)
            /\ \A j \in 1..Len(rows) :
                 \E p \in kept : /\ rows[j] = (p[1] - 1) * S + p[2]
                                 /\ trace.labels[j] = args.labels[p[1]][p[2]]
            /\ ret.loss[Len(ret.loss)] = ToString(trace.labels)
            /\ \E i \in 1..Len(ret.loss) :
                 ret.loss[i] = "rows" /\ ret.loss[i + 1] = ToString(rows)

C7_Witness ==
    /\ Returned("BertForTokenClassification.forward")
    /\ args.labels # None
    /\ args.attention_mask # None
    /\ Len(args.input_ids) = 2
    /\ trace.rows = <<2, 3>>

\* C8: BertModel.forward turns the 0/1 attention mask into an additive mask of
\* shape [batch_size, 1, 1, sequence_length] that is 0 where the mask is 1 and
\* -10000 where it is 0, so that the same term is added to the scores of every
\* head and query position; attention_mask=None behaves as an all-ones mask and
\* token_type_ids=None as all-zero token types.
C8_AdditiveMask ==
    Returned("BertModel.forward") =>
        LET B == Len(args.input_ids)
            S == Len(args.input_ids[1])
            ones == [b \in 1..B |-> [s \in 1..S |-> 1]]
            zeros == [b \in 1..B |-> [s \in 1..S |-> 0]]
            m == IF args.attention_mask = None THEN ones ELSE args.attention_mask
            ext == trace.extended_attention_mask
            scores == trace.attention_scores
        IN  /\ Len(ext) = B
            /\ \A b \in 1..B :
                 /\ Len(ext[b]) = 1
                 /\ Len(ext[b][1]) = 1
                 /\ Len(ext[b][1][1]) = S
                 /\ \A s \in 1..S :
                      ext[b][1][1][s] = IF m[b][s] = 1 THEN 0 ELSE -10000
            /\ \A b \in 1..B : \A h \in 1..NumHeads : \A q \in 1..S : \A k \in 1..S :
                 scores[b][h][q][k]
                   = RawScores(B, S)[b][h][q][k] + (IF m[b][k] = 1 THEN 0 ELSE -10000)
            /\ args.attention_mask = None =>
                 ret = BertModel_forward(model.num_hidden_layers, args.input_ids,
                           args.token_type_ids, ones, args.output_all_encoded_layers)
            /\ args.token_type_ids = None =>
                 ret = BertModel_forward(model.num_hidden_layers, args.input_ids,
                           zeros, args.attention_mask, args.output_all_encoded_layers)

C8_Witness ==
    /\ Returned("BertModel.forward")
    /\ args.attention_mask = <<(<<1, 0>>), (<<1, 1>>)>>
    /\ trace.extended_attention_mask[1][1][1] = <<0, -10000>>
    /\ model.num_hidden_layers >= 1

\* C9: from_pretrained looks for the mapped archive URL when its first argument
\* is a key of PRETRAINED_MODEL_ARCHIVE_MAP and for the argument itself otherwise;
\* when the lookup fails with EnvironmentError it returns None without raising,
\* without creating a temp directory and without instantiating a model.
C9_ArchiveResolution ==
    Returned("from_pretrained") =>
        LET name == args.pretrained_model_name_or_path
        IN  /\ trace.archive_file =
                 IF name \in DOMAIN PRETRAINED_MODEL_ARCHIVE_MAP
                 THEN PRETRAINED_MODEL_ARCHIVE_MAP[name] ELSE name
            /\ ~args.env.found =>
                 /\ ret.returned = "None"
                 /\ ret.raised = ""
                 /\ \A i \in 1..Len(trace.events) :
                      trace.events[i] \notin {"mkdtemp", "cls(config)"}
                 /\ model = None

C9_Witness ==
    /\ Returned("from_pretrained")
    /\ args.pretrained_model_name_or_path = "bert-base-chinese"
    /\ ~args.env.found
    /\ ret.returned = "None"
    /\ trace.archive_file =
         "https://s3.amazonaws.com/models.huggingface.co/bert/bert-base-chinese.tar.gz"

\* a key with every gamma replaced by weight and every beta by bias
FullyRenamed(key) == Replace(Replace(key, gamma, weight), beta, bias)

\* C10 (as claimed): after the key-renaming pass of from_pretrained, for every
\* state_dict, no key containing gamma or beta remains, and every original key,
\* with each gamma replaced by weight and each beta by bias, carries its original
\* value (so keys containing neither are untouched).
C10_RenamedKeys ==
    (Returned("from_pretrained") /\ ret.returned = "model" /\ ~args.from_tf) =>
        LET before == IF args.state_dict = None THEN ArchiveWeights ELSE args.state_dict
            after == trace.state_dict
        IN  /\ \A i \in 1..Len(after) :
                 ~Contains(after[i].key, gamma) /\ ~Contains(after[i].key, beta)
            /\ \A i \in 1..Len(before) :
                 /\ HasKey(after, FullyRenamed(before[i].key))
                 /\ GetItem(after, FullyRenamed(before[i].key)) = before[i].value

\* the variables of the checkpoint that are not optimizer variables
NotSkipped(variable) == ~IsOptimizerVariable(variable.name)

\* the attribute selected for a word: weight for 'kernel', 'gamma' and
\* 'output_weights', bias for 'output_bias' and 'beta', else the word's own
Selected(word) ==
    IF word \in {Literal.kernel, gamma, Literal.output_weights} THEN weight
    ELSE IF word \in {Literal.output_bias, beta} THEN bias
    ELSE word

\* the selections of one component, the letters of <letters>_<digits> selected
\* like a whole component
ComponentPath(word) ==
    IF re_fullmatch(word)
    THEN <<Attr(Selected(re_split(word)[1])), Item(int(re_split(word)[2]))>>
    ELSE <<Attr(Selected(word))>>

\* the selections of one component, the letters of <letters>_<digits> naming
\* the attribute themselves
ComponentPathByLetters(word) ==
    IF re_fullmatch(word)
    THEN <<Attr(re_split(word)[1]), Item(int(re_split(word)[2]))>>
    ELSE <<Attr(Selected(word))>>

\* a final component ending in '_embeddings' additionally selects weight
FinalSelection(name) ==
    IF Len(Last(name)) >= 11 /\ SubSeq(Last(name), Len(Last(name)) - 10, Len(Last(name))) = Literal.embeddings_suffix
    THEN <<Attr(weight)>>
    ELSE <<>>

RECURSIVE WalkedPath(_)
\* the parameter a name is mapped to, its components walked in order
WalkedPath(name) ==
    IF name = <<>> THEN <<>>
    ELSE WalkedPath(SubSeq(name, 1, Len(name) - 1)) \o ComponentPath(Last(name))

RECURSIVE WalkedPathByLetters(_)
WalkedPathByLetters(name) ==
    IF name = <<>> THEN <<>>
    ELSE WalkedPathByLetters(SubSeq(name, 1, Len(name) - 1)) \o ComponentPathByLetters(Last(name))

\* the array assigned for a variable: transposed when the final component is 'kernel'
AssignedArray(variable) ==
    IF Last(variable.name) = Literal.kernel
    THEN [shape |-> [i \in 1..Len(variable.array.shape) |-> variable.array.shape[Len(variable.array.shape) + 1 - i]], transposed |-> TRUE]
    ELSE variable.array

\* the walk of the variable's name ends at a tensor of the shape of the assigned array
Assignable(n, variable) ==
    LET pointer == WalkedPath(variable.name) \o FinalSelection(variable.name)
    IN  /\ IsTensor(n, pointer)
        /\ shape_of(n, pointer) = AssignedArray(variable).shape

\* C11 as stated: load_tf_weights_in_bert maps each variable name of the
\* checkpoint to a parameter, walking its components in order, a component
\* <letters>_<digits> selecting the attribute named by the letters and then
\* element <digits>: a load that raised nothing has made one assignment per
\* variable of the checkpoint.
C11_EveryNameMapped ==
    (Returned("load_tf_weights_in_bert") /\ ret.raised = "") =>
        /\ Len(ret.events) = Len(args.checkpoint)
        /\ \A i \in 1..Len(ret.events) :
               /\ ret.events[i].name = args.checkpoint[i].name
               /\ ret.events[i].pointer = WalkedPathByLetters(args.checkpoint[i].name) \o FinalSelection(args.checkpoint[i].name)

\* C11: load_tf_weights_in_bert skips every variable whose name has a
\* component 'adam_v' or 'adam_m' and maps each other name, split on '/', to a
\* model parameter by walking the components in order: 'kernel', 'gamma' and
\* 'output_weights' select weight, 'output_bias' and 'beta' select bias, any other
\* component the attribute of that name, <letters>_<digits> what the letters
\* select in the same way and then element <digits>; a final component ending
\* in '_embeddings' additionally selects weight, and the array of a final
\* component 'kernel' is transposed before it is assigned. The assignments are
\* made in the order of the checkpoint up to the first variable whose walk does
\* not end at a tensor of the array's shape, where the load raises.
C11_NameWalk ==
    (Returned("load_tf_weights_in_bert") /\ args.tensorflow) =>
        LET n == model.num_hidden_layers
            mapped == SelectSeq(args.checkpoint, NotSkipped)
        IN  /\ Len(ret.events) <= Len(mapped)
            /\ \A i \in 1..Len(ret.events) :
                   /\ ret.events[i].name = mapped[i].name
                   /\ ret.events[i].pointer = WalkedPath(mapped[i].name) \o FinalSelection(mapped[i].name)
                   /\ ret.events[i].array = AssignedArray(mapped[i])
                   /\ Assignable(n, mapped[i])
            /\ ret.raised = "" <=> Len(ret.events) = Len(mapped)
            /\ Len(ret.events) < Len(mapped) => ~Assignable(n, mapped[Len(ret.events) + 1])

\* a skipped optimizer variable, then a kernel assigned transposed
C11_Witness ==
    /\ Returned("load_tf_weights_in_bert")
    /\ ret.raised = ""
    /\ Len(args.checkpoint) = 2
    /\ IsOptimizerVariable(args.checkpoint[1].name)
    /\ Last(args.checkpoint[2].name) = Literal.kernel
    /\ Len(ret.events) = 1
    /\ ret.events[1].array.transposed
    /\ Last(ret.events[1].pointer) = Attr(weight)

\* the call that has returned is a forward pass of one of the three siamese variants
SiameseReturned ==
    \/ Returned("BertForVer3_siamese_sub.forward")
    \/ Returned("BertForVer3_siamese_main_once.forward_once")
    \/ Returned("BertForVer3_siamese_main_once_intraatt.forward_once")

\* C12: for equal weights and equal inputs, BertForVer3_siamese_sub.forward,
\* BertForVer3_siamese_main_once.forward_once and
\* BertForVer3_siamese_main_once_intraatt.forward_once apply the same sublayers in
\* the same order to the same values and return the same pair
\* (logits_rel_2, logits_ent_2): what any one of them returned is what each of
\* the three returns on the same arguments.
C12_SiameseVariantsAgree ==
    SiameseReturned =>
        LET n == model.num_hidden_layers
        IN  /\ ret.raised = ""
            /\ Len(ret.logits) = 2
            /\ ret = BertForVer3_siamese_sub_forward(n, args.input_ids,
                         args.token_type_ids, args.attention_mask)
            /\ ret = BertForVer3_siamese_main_once_forward_once(n, args.input_ids,
                         args.token_type_ids, args.attention_mask)
            /\ ret = BertForVer3_siamese_main_once_intraatt_forward_once(n,
                         args.input_ids, args.token_type_ids, args.attention_mask)

C12_Witness ==
    /\ Returned("BertForVer3_siamese_main_once_intraatt.forward_once")
    /\ model.num_hidden_layers >= 1
    /\ args.attention_mask # None
    /\ ret.logits[1][1] = "encode_rel_2"
    /\ ret.logits[2][2] = "encode_ent_2"

\* the hidden states a layer is applied to, given the states the encoder returned
LayerInputs(embedding_output, encoded_layers) ==
    [i \in 1..Len(encoded_layers) |->
       IF i = 1 THEN embedding_output ELSE encoded_layers[i - 1]]

\* C13: each BertLayer applies self-attention to the layer input, then dense,
\* dropout and LayerNorm of (result + layer input), then the intermediate dense
\* and activation, then dense, dropout and LayerNorm of (result + attention
\* output); the layer input is not the residual of the second LayerNorm, and
\* every layer is handed the same attention mask, the one BertModel.forward built.
C13_LayerWiring ==
    (Returned("BertModel.forward") /\ args.output_all_encoded_layers
       /\ model.num_hidden_layers >= 1) =>
        LET emb == BertEmbeddings_forward(args.input_ids, args.token_type_ids)
            mask == ToString(trace.extended_attention_mask)
            inputs == LayerInputs(emb, ret.encoded_layers)
        IN  \A i \in 1..Len(ret.encoded_layers) :
              LET l == ToString(i - 1)
                  x == inputs[i]
                  attention_output ==
                      <<"attention.output.LayerNorm", l, "add",
                        "attention.output.dropout", l, "attention.output.dense", l,
                        "attention.self", l, mask>> \o x \o x
              IN  /\ ret.encoded_layers[i] =
                       <<"output.LayerNorm", l, "add", "output.dropout", l,
                         "output.dense", l, "intermediate.act_fn", l,
                         "intermediate.dense", l>>
                         \o attention_output \o attention_output
                  /\ ret.encoded_layers[i] #
                       <<"output.LayerNorm", l, "add", "output.dropout", l,
                         "output.dense", l, "intermediate.act_fn", l,
                         "intermediate.dense", l>>
                         \o attention_output \o x

C13_Witness ==
    /\ Returned("BertModel.forward")
    /\ args.output_all_encoded_layers
    /\ model.num_hidden_layers >= 2
    /\ args.attention_mask # None
    /\ ret.raised = ""
    /\ Len(ret.encoded_layers) >= 2
    /\ ret.encoded_layers[2][1] = "output.LayerNorm"

====
